---------------------------- MODULE Spec2Model ----------------------------
(***************************************************************************)
(* Model of generate_planilha.py: the monthly attendance-sheet generator.  *)
(*                                                                         *)
(* A worksheet is a rectangular grid of cells (a sequence of rows, each a  *)
(* sequence of cells); a cell that does not exist reads as an empty cell.  *)
(* Text is a sequence of one-character strings, so that normalisation,     *)
(* trimming, suffix and substring tests are computed and not assumed.      *)
(* Accented characters are written with an ASCII name: "e^" is e with      *)
(* circumflex, "c," is c with cedilla, "a~" is a with tilde, "E^", "C,"    *)
(* and "A~" their capitals, and "EMDASH" a character with no ASCII         *)
(* decomposition.                                                          *)
(***************************************************************************)
EXTENDS Integers, Sequences, FiniteSets, TLC

VARIABLES
    ws,                 \* the worksheet being processed: grid of cells
    column_dimensions,  \* ws.column_dimensions: column -> width (0: no entry)
    pc,                 \* position in generate_planilha / process_sheet
    target_year,        \* config.target_year
    target_month,       \* config.target_month
    sundays,            \* the DateSet returned by month_sundays
    students,           \* the roster returned by collect_students
    date_cols,          \* the columns returned by update_header_dates
    calls               \* history: one record per grid-changing call made

vars == <<ws, column_dimensions, pc, target_year, target_month, sundays,
          students, date_cols, calls>>

---------------------------------------------------------------------------
(* Bounds of the model.                                                    *)

MinYear == 2000
NumYears == 28
MaxFirst == 6
MaxSpan == 6
MaxRoster == 5
MaxSectionRows == 6
MaxDates == 2
MaxStudents == 3

(* Program constants.                                                      *)

HEADER_ROW_INDEX == 5
SUNDAY == 6
DEFAULT_COLUMN_WIDTH == 13

---------------------------------------------------------------------------
(* Generic helpers.                                                        *)

Range(s) == {s[i] : i \in DOMAIN s}

Max(a, b) == IF a >= b THEN a ELSE b

IndexOf(s, x) == CHOOSE i \in DOMAIN s : s[i] = x

\* The sequence a function over 1..n is, as a tuple.
Tup(f) == f \o <<>>

---------------------------------------------------------------------------
(* Text.                                                                   *)

UPPER == <<"A","B","C","D","E","F","G","H","I","J","K","L","M",
           "N","O","P","Q","R","S","T","U","V","W","X","Y","Z">>
LOWER == <<"a","b","c","d","e","f","g","h","i","j","k","l","m",
           "n","o","p","q","r","s","t","u","v","w","x","y","z">>
DIGITS == <<"0","1","2","3","4","5","6","7","8","9">>

\* Characters that NFKD decomposes into an ASCII letter and a combining mark.
ACCENTED == <<"E^", "e^", "C,", "c,", "A~", "a~">>
ACCENT_BASE == <<"E", "e", "C", "c", "A", "a">>

UPPER_SET == Range(UPPER)
LOWER_SET == Range(LOWER)
DIGIT_SET == Range(DIGITS)
ACCENTED_SET == Range(ACCENTED)
ASCII_SET == UPPER_SET \cup LOWER_SET \cup DIGIT_SET \cup {" ", ":", "-", "/", "."}

\* str.lower() of one ASCII character
LowerChar(c) == IF c \in UPPER_SET THEN LOWER[IndexOf(UPPER, c)] ELSE c

\* unicodedata.normalize("NFKD", c).encode("ascii", "ignore").lower() of one
\* character: the base letter of an accented one, nothing for any other
\* character outside ASCII.
NormCharOf(c) ==
    IF c \in ACCENTED_SET
      THEN <<LowerChar(ACCENT_BASE[IndexOf(ACCENTED, c)])>>
      ELSE <<LowerChar(c)>>

\* NormCharOf, tabulated over the characters that normalise to something.
NORM_TABLE == [c \in ASCII_SET \cup ACCENTED_SET |-> NormCharOf(c)]

NormChar(c) == IF c \in DOMAIN NORM_TABLE THEN NORM_TABLE[c] ELSE <<>>

\* Code point of a character that a normalised text can hold.
Ord(c) ==
    IF c \in LOWER_SET THEN 96 + IndexOf(LOWER, c)
    ELSE IF c \in DIGIT_SET THEN 47 + IndexOf(DIGITS, c)
    ELSE IF c \in UPPER_SET THEN 64 + IndexOf(UPPER, c)
    ELSE IF c = " " THEN 32
    ELSE IF c = "-" THEN 45
    ELSE IF c = "." THEN 46
    ELSE IF c = "/" THEN 47
    ELSE IF c = ":" THEN 58
    ELSE 255

\* str < str of Python: lexicographic on code points.
RECURSIVE StrLess(_, _)
StrLess(a, b) ==
    IF b = <<>> THEN FALSE
    ELSE IF a = <<>> THEN TRUE
    ELSE IF Ord(Head(a)) # Ord(Head(b)) THEN Ord(Head(a)) < Ord(Head(b))
    ELSE StrLess(Tail(a), Tail(b))

RECURSIVE LStrip(_)
LStrip(t) == IF t # <<>> /\ Head(t) = " " THEN LStrip(Tail(t)) ELSE t

RECURSIVE RStrip(_)
RStrip(t) ==
    IF t # <<>> /\ t[Len(t)] = " " THEN RStrip(SubSeq(t, 1, Len(t) - 1)) ELSE t

\* str.strip()
Strip(t) == RStrip(LStrip(t))

\* str.endswith
EndsWith(t, suffix) ==
    /\ Len(t) >= Len(suffix)
    /\ SubSeq(t, Len(t) - Len(suffix) + 1, Len(t)) = suffix

\* token in text
Contains(t, token) ==
    \E i \in 1..(Len(t) - Len(token) + 1) :
        SubSeq(t, i, i + Len(token) - 1) = token

\* f"{n:02d}" for 0 <= n <= 99
TwoDigits(n) == <<DIGITS[(n \div 10) + 1], DIGITS[(n % 10) + 1]>>

---------------------------------------------------------------------------
(* Cells and worksheets.                                                   *)

NoDate == <<0, 0, 0>>

\* cell._style: the number format and the rest (font, fill, border), which
\* the model names by the column it was first given to (0: the default).
Style(fmt, look) == [number_format |-> fmt, look |-> look]
DefaultStyle == Style("General", 0)

\* A cell value: its kind (None, a str, a datetime) and the value.
NoneValue == [kind |-> "none", text |-> <<>>, date |-> NoDate]
StrValue(t) == [kind |-> "str", text |-> t, date |-> NoDate]
DateValue(d) == [kind |-> "date", text |-> <<>>, date |-> d]

\* A cell: a value and a style.
Cell(v, st) ==
    [kind |-> v.kind, text |-> v.text, date |-> v.date, style |-> st]
NoneCell == Cell(NoneValue, DefaultStyle)
ValueOf(cell) == [kind |-> cell.kind, text |-> cell.text, date |-> cell.date]

\* isinstance(value, str), isinstance(value, datetime)
IsStr(cell) == cell.kind = "str"
IsDate(cell) == cell.kind = "date"
\* value in (None, "")
IsBlank(cell) == cell.kind = "none" \/ (cell.kind = "str" /\ cell.text = <<>>)

\* cell.value = v, the style kept
WithValue(cell, v) == Cell(v, cell.style)

MaxRowOf(w) == Len(w)
MaxColumnOf(w) == IF w = <<>> THEN 0 ELSE Len(w[1])

\* ws.cell(row, column) read
CellAt(w, r, c) ==
    IF r \in 1..Len(w) /\ c \in 1..Len(w[r]) THEN w[r][c] ELSE NoneCell

\* The grid grown to hold rows 1..r and columns 1..c.
Grown(w, r, c) ==
    LET rows == Max(Len(w), r)
        cols == Max(MaxColumnOf(w), c)
    IN IF rows = Len(w) /\ cols = MaxColumnOf(w) THEN w
       ELSE Tup([i \in 1..rows |-> Tup([j \in 1..cols |-> CellAt(w, i, j)])])

\* ws.cell(row, column).value = v
SetValue(w, r, c, v) ==
    LET g == Grown(w, r, c)
    IN [g EXCEPT ![r][c] = WithValue(g[r][c], v)]

\* ws.cell(row, column).number_format = fmt
SetNumberFormat(w, r, c, fmt) ==
    LET g == Grown(w, r, c)
    IN [g EXCEPT ![r][c].style.number_format = fmt]

\* ws.insert_cols(idx): every cell at column >= idx moves one column right.
InsertCols(w, idx) ==
    Tup([i \in 1..Len(w) |->
           IF idx <= Len(w[i]) + 1
             THEN SubSeq(w[i], 1, idx - 1) \o <<NoneCell>>
                      \o SubSeq(w[i], idx, Len(w[i]))
             ELSE w[i]])

\* ws.insert_rows(idx, amount): every row >= idx moves amount rows down.
InsertRows(w, idx, amount) ==
    IF idx <= Len(w)
      THEN SubSeq(w, 1, idx - 1)
             \o Tup([i \in 1..amount |->
                       Tup([j \in 1..MaxColumnOf(w) |-> NoneCell])])
             \o SubSeq(w, idx, Len(w))
      ELSE w

---------------------------------------------------------------------------
(* normalize                                                               *)

RECURSIVE Normalize(_)
Normalize(t) ==
    IF t = <<>> THEN <<>> ELSE NormChar(Head(t)) \o Normalize(Tail(t))

---------------------------------------------------------------------------
(* month_sundays                                                           *)

IsLeap(y) == y % 4 = 0 /\ (y % 100 # 0 \/ y % 400 = 0)

\* calendar.monthrange(year, month)[1]
DaysInMonth(y, m) ==
    IF m = 2 THEN (IF IsLeap(y) THEN 29 ELSE 28)
    ELSE IF m \in {4, 6, 9, 11} THEN 30 ELSE 31

RECURSIVE DaysBeforeMonth(_, _)
DaysBeforeMonth(y, m) ==
    IF m = 1 THEN 0 ELSE DaysBeforeMonth(y, m - 1) + DaysInMonth(y, m - 1)

\* date(y, m, d).toordinal()
ToOrdinal(y, m, d) ==
    LET p == y - 1
    IN p * 365 + (p \div 4) - (p \div 100) + (p \div 400)
         + DaysBeforeMonth(y, m) + d

\* date(y, m, d).weekday(): Monday is 0, Sunday is 6
Weekday(y, m, d) == (ToOrdinal(y, m, d) + 6) % 7

RECURSIVE SundaysFrom(_, _, _, _)
SundaysFrom(y, m, day, last_day) ==
    IF day > last_day THEN <<>>
    ELSE (IF Weekday(y, m, day) = SUNDAY THEN <<<<y, m, day>>>> ELSE <<>>)
            \o SundaysFrom(y, m, day + 1, last_day)

\* A variant that stops one day early, as range(1, last_day) would.
MonthSundays_StopsEarly(y, m) == SundaysFrom(y, m, 1, DaysInMonth(y, m) - 1)

MonthSundays(y, m) == SundaysFrom(y, m, 1, DaysInMonth(y, m))

---------------------------------------------------------------------------
(* ensure_column_style                                                     *)

WidthOf(cd, c) == IF c \in 1..Len(cd) THEN cd[c] ELSE 0

SetWidth(cd, c, width) ==
    Tup([i \in 1..Max(Len(cd), c) |-> IF i = c THEN width ELSE WidthOf(cd, i)])

\* The width part of ensure_column_style (0 stands for "no entry").
CopyWidth(cd, src_col, dest_col) ==
    IF WidthOf(cd, src_col) # 0
      THEN SetWidth(cd, dest_col, WidthOf(cd, src_col))
      ELSE SetWidth(cd, dest_col,
                    IF WidthOf(cd, dest_col) = 0 THEN DEFAULT_COLUMN_WIDTH
                    ELSE WidthOf(cd, dest_col))

\* The cell part of ensure_column_style: for every row up to max_row the
\* destination cell takes a copy of the source cell's style.
CopyColumnStyle(w, src_col, dest_col) ==
    IF Len(w) = 0 THEN w
    ELSE LET g == Grown(w, Len(w), Max(src_col, dest_col))
         IN Tup([i \in 1..Len(g) |->
                   [g[i] EXCEPT ![dest_col].style = g[i][src_col].style]])

---------------------------------------------------------------------------
(* ensure_date_columns                                                     *)

\* ws[HEADER_ROW_INDEX]: the cells of the header row, columns 1..max_column.
HeaderRow(w) == IF HEADER_ROW_INDEX <= Len(w) THEN w[HEADER_ROW_INDEX] ELSE <<>>

\* sorted(...) of a list of distinct integers
RECURSIVE SortedInts(_)
SortedInts(s) ==
    IF s = <<>> THEN <<>>
    ELSE LET m == CHOOSE x \in Range(s) : \A y \in Range(s) : x <= y
         IN <<m>> \o SortedInts(SelectSeq(s, LAMBDA x : x # m))

\* The columns of the header row that hold a datetime, ascending.
ExistingDateCols(w) ==
    LET row == HeaderRow(w)
        IsDateCol(c) == IsDate(row[c])
    IN SelectSeq(Tup([c \in 1..Len(row) |-> c]), IsDateCol)

NeededCols(first_col, n) == Tup([idx \in 1..n |-> first_col + idx - 1])

\* The state of ensure_date_columns between two steps: the sheet, the column
\* widths, the list existing_cols and the columns given to insert_cols so far.
EnsureState(w, cd, existing_cols, inserted) ==
    [ws |-> w, cd |-> cd, existing_cols |-> existing_cols,
     inserted |-> inserted]

\* A variant that inserts one column too far to the right.
GapInsertAt_Right(col) == col + 1

\* The column a missing target column is inserted at.
GapInsertAt(col) == col

\* One iteration of "for col in needed_cols".
FillGapStep(st, col) ==
    IF col \in Range(st.existing_cols) THEN st
    ELSE LET at == GapInsertAt(col)
             renumbered == Tup([i \in 1..Len(st.existing_cols) |->
                                  IF st.existing_cols[i] >= at
                                    THEN st.existing_cols[i] + 1
                                    ELSE st.existing_cols[i]])
         IN EnsureState(CopyColumnStyle(InsertCols(st.ws, at), at - 1, at),
                        CopyWidth(st.cd, at - 1, at),
                        SortedInts(Append(renumbered, at)),
                        Append(st.inserted, at))

RECURSIVE FillGaps(_, _, _)
FillGaps(st, needed_cols, i) ==
    IF i > Len(needed_cols) THEN st
    ELSE FillGaps(FillGapStep(st, needed_cols[i]), needed_cols, i + 1)

\* A variant that also appends when the counts are equal.
StillFewer_OrEqual(needed_cols, existing_cols) ==
    Len(needed_cols) >= Len(existing_cols)

\* The condition of "while len(needed_cols) > len(existing_cols)".
StillFewer(needed_cols, existing_cols) == Len(needed_cols) > Len(existing_cols)

RECURSIVE AppendColumns(_, _)
AppendColumns(st, needed_cols) ==
    IF ~StillFewer(needed_cols, st.existing_cols) THEN st
    ELSE LET insert_col == st.existing_cols[Len(st.existing_cols)] + 1
         IN AppendColumns(
              EnsureState(
                CopyColumnStyle(InsertCols(st.ws, insert_col),
                                insert_col - 1, insert_col),
                CopyWidth(st.cd, insert_col - 1, insert_col),
                Append(st.existing_cols, insert_col),
                Append(st.inserted, insert_col)),
              needed_cols)

EnsureReturns(done, needed_cols) ==
    [ws |-> done.ws, cd |-> done.cd, needed_cols |-> needed_cols,
     inserted |-> done.inserted]

EnsureFrom(w, cd, existing_cols, needed_cols) ==
    EnsureReturns(
      AppendColumns(FillGaps(EnsureState(w, cd, existing_cols, <<>>),
                             needed_cols, 1),
                    needed_cols),
      needed_cols)

EnsureWith(w, cd, existing_cols, n) ==
    IF existing_cols = <<>>
      THEN [ws |-> w, cd |-> cd, needed_cols |-> <<>>, inserted |-> <<>>]
      ELSE EnsureFrom(w, cd, existing_cols, NeededCols(existing_cols[1], n))

\* ensure_date_columns(ws, sundays): the sheet and widths afterwards, the
\* columns returned, and the columns that were given to insert_cols.
EnsureDateColumns(w, cd, dates) ==
    EnsureWith(w, cd, ExistingDateCols(w), Len(dates))

---------------------------------------------------------------------------
(* clear_extra_header_columns                                              *)

\* max(target_cols)
MaxOf(s) == CHOOSE x \in Range(s) : \A y \in Range(s) : x >= y

\* A variant that clears leftover dates only.
ScanEnds_AtNonDate(cell) == ~IsDate(cell)

\* The test that ends the scan of clear_extra_header_columns.
ScanEnds(cell) == IsBlank(cell)

RECURSIVE ClearFrom(_, _)
ClearFrom(w, col_idx) ==
    LET g == Grown(w, HEADER_ROW_INDEX, col_idx)
    IN IF ScanEnds(g[HEADER_ROW_INDEX][col_idx]) THEN g
       ELSE ClearFrom(SetValue(g, HEADER_ROW_INDEX, col_idx, StrValue(<<>>)),
                      col_idx + 1)

ClearExtraHeaderColumns(w, target_cols) == ClearFrom(w, MaxOf(target_cols) + 1)

---------------------------------------------------------------------------
(* update_header_dates                                                     *)

RECURSIVE WriteHeaderDates(_, _, _, _)
WriteHeaderDates(w, target_cols, dates, idx) ==
    IF idx > Len(target_cols) THEN w
    ELSE WriteHeaderDates(
           SetNumberFormat(
             SetValue(w, HEADER_ROW_INDEX, target_cols[idx],
                      DateValue(dates[idx])),
             HEADER_ROW_INDEX, target_cols[idx], "dd/mm"),
           target_cols, dates, idx + 1)

\* Lines 222-234 of update_header_dates, given what ensure_date_columns
\* returned (e) and the sheet with the dates written and the extra header
\* cells cleared.
HeaderDatesFinish(e, cleared, last_col, prev_col) ==
    [ws |-> CopyColumnStyle(cleared, prev_col, last_col),
     cd |-> CopyWidth(e.cd, prev_col, last_col),
     target_cols |-> e.needed_cols,
     inserted |-> e.inserted, ensured |-> e.ws]

HeaderDatesWrite(e, dates) ==
    IF e.needed_cols = <<>>
      THEN [ws |-> e.ws, cd |-> e.cd, target_cols |-> <<>>,
            inserted |-> e.inserted, ensured |-> e.ws]
      ELSE HeaderDatesFinish(
             e,
             ClearExtraHeaderColumns(
               WriteHeaderDates(e.ws, e.needed_cols, dates, 1), e.needed_cols),
             e.needed_cols[Len(e.needed_cols)],
             IF Len(e.needed_cols) >= 2
               THEN e.needed_cols[Len(e.needed_cols) - 1]
               ELSE e.needed_cols[Len(e.needed_cols)])

\* update_header_dates(ws, sundays): the sheet and widths afterwards, the
\* columns returned, and what ensure_date_columns did.
UpdateHeaderDatesOf(w, cd, dates) ==
    HeaderDatesWrite(EnsureDateColumns(w, cd, dates), dates)

---------------------------------------------------------------------------
(* The history variable: what each call was given and what it did.         *)

CallRecord(op, before, ensured, inserted, label, values) ==
    [op |-> op, before |-> before, ensured |-> ensured,
     inserted |-> inserted, label |-> label, values |-> values]

---------------------------------------------------------------------------
(* generate_planilha, line 336: sundays = month_sundays(year, month)       *)

ComputeSundays ==
    /\ pc = "start"
    /\ sundays' = MonthSundays(target_year, target_month)
    /\ pc' = "month_label"
    /\ UNCHANGED <<ws, column_dimensions, target_year, target_month,
                   students, date_cols, calls>>

---------------------------------------------------------------------------
(* process_sheet, lines 318-320: date_cols = update_header_dates(...)      *)

HeaderReturns(r, next_pc, empty_pc) ==
    /\ ws' = r.ws
    /\ column_dimensions' = r.cd
    /\ date_cols' = r.target_cols
    /\ calls' = Append(calls, CallRecord("update_header_dates", ws,
                                         r.ensured, r.inserted, <<>>, <<>>))
    /\ pc' = IF r.target_cols = <<>> THEN empty_pc ELSE next_pc
    /\ UNCHANGED <<target_year, target_month, sundays, students>>

HeaderCall(next_pc, empty_pc) ==
    HeaderReturns(UpdateHeaderDatesOf(ws, column_dimensions, sundays),
                  next_pc, empty_pc)

UpdateHeaderDates ==
    /\ pc = "header"
    /\ HeaderCall("find_columns", "done")

\* A second generation run over the sheet the first produced, with the same
\* DateSet.
RepeatUpdateHeaderDates ==
    /\ pc = "find_columns"
    /\ HeaderCall("header_twice", "done")

---------------------------------------------------------------------------
(* Worksheets the specifications start from.                               *)

SeqsOf(S, lo, hi) == UNION {[1..n -> S] : n \in lo..hi}

T_TOTAL == <<"T","O","T","A","L">>

\* The label a header cell left of the date block holds, by its column.
LeftLabel(c) ==
    IF c = 1 THEN <<"N","O","M","E">>
    ELSE IF c = 2 THEN <<"D","a","t","a"," ","N","a","s","c",".">>
    ELSE <<"N",".">>

\* A date of the month before, as the base workbook holds them.
OldDate(j) == <<2023, 12, j>>

\* The cells left of the date block when it starts at column first_col: all
\* labels, or (with gaps) a label in columns 1, 2 and every odd column.
LeftKinds(first_col, gaps) ==
    Tup([c \in 1..(first_col - 1) |->
           IF gaps /\ c > 2 /\ c % 2 = 0 THEN "none" ELSE "label"])

\* A header row: `left` (kinds "none", "label") then `block` (kinds "none",
\* "label", "date"); the style of a cell is named by its column.
HeaderOf(left, block) ==
  Tup(
    [c \in 1..(Len(left) + Len(block)) |->
        IF c <= Len(left)
          THEN (IF left[c] = "label"
                  THEN Cell(StrValue(LeftLabel(c)), Style("General", c))
                  ELSE Cell(NoneValue, Style("General", c)))
          ELSE LET j == c - Len(left)
               IN IF block[j] = "date"
                    THEN Cell(DateValue(OldDate(j)), Style("dd/mm", c))
                    ELSE IF block[j] = "label"
                      THEN Cell(StrValue(T_TOTAL), Style("General", c))
                      ELSE Cell(NoneValue, Style("General", c))])

EmptyRow(width) == Tup([c \in 1..width |-> NoneCell])

\* A sheet that holds nothing but its header row.
HeaderSheet(header) ==
    Tup([r \in 1..HEADER_ROW_INDEX |->
           IF r = HEADER_ROW_INDEX THEN header ELSE EmptyRow(Len(header))])

\* Column widths: the odd columns have a width of their own.
WidthsOf(width) == Tup([c \in 1..width |-> IF c % 2 = 1 THEN 8 + c ELSE 0])

HeaderSheets ==
    { HeaderSheet(HeaderOf(left, <<"date">> \o rest)) :
        left \in {LeftKinds(f, g) : f \in 1..MaxFirst, g \in BOOLEAN},
        rest \in SeqsOf({"none", "label", "date"}, 0, MaxSpan - 1) }

---------------------------------------------------------------------------
(* Specification of month_sundays over the years MinYear .. MinYear +      *)
(* NumYears - 1.                                                           *)

InitSundays ==
    /\ target_year \in MinYear..(MinYear + NumYears - 1)
    /\ target_month \in 1..12
    /\ pc = "start"
    /\ ws = <<>>
    /\ column_dimensions = <<>>
    /\ sundays = <<>>
    /\ students = <<>>
    /\ date_cols = <<>>
    /\ calls = <<>>

NextSundays == ComputeSundays

SpecSundays == InitSundays /\ [][NextSundays]_vars

---------------------------------------------------------------------------
(* Specification of the date-column alignment: update_header_dates on a    *)
(* sheet, then once more on the result.                                    *)

InitHeader ==
    \* a month of four Sundays and one of five
    /\ \E t \in {<<2024, 2>>, <<2024, 3>>} :
          /\ target_year = t[1]
          /\ target_month = t[2]
          /\ sundays = MonthSundays(t[1], t[2])
    /\ ws \in HeaderSheets
    /\ column_dimensions = WidthsOf(MaxColumnOf(ws))
    /\ pc = "header"
    /\ students = <<>>
    /\ date_cols = <<>>
    /\ calls = <<>>

NextHeader == UpdateHeaderDates \/ RepeatUpdateHeaderDates

SpecHeader == InitHeader /\ [][NextHeader]_vars

---------------------------------------------------------------------------
(* Properties of month_sundays (under SpecSundays).                        *)

SundayDays == Tup([i \in 1..Len(sundays) |-> sundays[i][3]])

\* C8: for every month length and every weekday of the first day of the
\* month, month_sundays returns exactly the days of that month that fall on
\* a Sunday, strictly ascending, without duplicates, four or five of them.
C8_SundaysExact ==
    pc = "month_label" =>
        /\ \A i \in 1..Len(sundays) :
              /\ sundays[i][1] = target_year
              /\ sundays[i][2] = target_month
        /\ Range(SundayDays) =
              {d \in 1..DaysInMonth(target_year, target_month) :
                  Weekday(target_year, target_month, d) = SUNDAY}
        /\ \A i \in 1..(Len(sundays) - 1) : SundayDays[i + 1] = SundayDays[i] + 7
        /\ Len(sundays) \in {4, 5}
        /\ SundayDays[1] \in 1..7
        /\ SundayDays[Len(sundays)] + 7 > DaysInMonth(target_year, target_month)

\* A leap February that starts on a Sunday: 29 days, five Sundays, the last
\* day of the month among them.
C8_Witness ==
    /\ pc = "month_label"
    /\ target_month = 2
    /\ SundayDays = <<1, 8, 15, 22, 29>>

---------------------------------------------------------------------------
(* Properties of the date-column alignment (under SpecHeader).             *)

HeaderValue(w, c) == ValueOf(CellAt(w, HEADER_ROW_INDEX, c))

IsLabelValue(v) == v.kind = "str" /\ v.text # <<>>

\* The column a cell of column c is at after the insertions of `inserted`,
\* made in order.
RECURSIVE ShiftedCol(_, _, _)
ShiftedCol(c, inserted, i) ==
    IF i > Len(inserted) THEN c
    ELSE ShiftedCol(IF inserted[i] <= c THEN c + 1 ELSE c, inserted, i + 1)

FirstRun == Len(calls) = 1 /\ calls[1].op = "update_header_dates"
SecondRun == Len(calls) = 2 /\ calls[2].op = "update_header_dates"

\* The header's date columns before the call form one contiguous block.
Contiguous(cols) == \A i \in 1..(Len(cols) - 1) : cols[i + 1] = cols[i] + 1

\* C1: after update_header_dates on a header with at least one date, in any
\* arrangement, the date columns are exactly first .. first + n - 1, column
\* first + i holds DateSet[i], and no other header cell holds a date.
C1_DateBlockExact ==
    (FirstRun /\ ExistingDateCols(calls[1].before) # <<>>) =>
        LET first == ExistingDateCols(calls[1].before)[1]
            n == Len(sundays)
        IN /\ Range(ExistingDateCols(ws)) = first..(first + n - 1)
           /\ \A i \in 1..n :
                 HeaderValue(ws, first + i - 1) = DateValue(sundays[i])

\* C3: from one contiguous block of k date columns starting at column first,
\* ensure_date_columns inserts exactly max(0, n - k) columns, each right
\* after the current end of the block (first + k, first + k + 1, ...), none
\* at or left of a date column, and no column is deleted: the header it
\* leaves is the old one with the new columns put in.
C3_InsertsRightOfBlock ==
    (FirstRun /\ Contiguous(ExistingDateCols(calls[1].before))) =>
        LET before == calls[1].before
            ensured == calls[1].ensured
            inserted == calls[1].inserted
            first == ExistingDateCols(before)[1]
            k == Len(ExistingDateCols(before))
            n == Len(sundays)
            grow == Max(0, n - k)
        IN /\ inserted = Tup([i \in 1..grow |-> first + k + i - 1])
           /\ MaxColumnOf(ensured) = MaxColumnOf(before) + grow
           /\ \A c \in 1..MaxColumnOf(before) :
                 CellAt(ensured, HEADER_ROW_INDEX,
                        IF c < first + k THEN c ELSE c + grow)
                   = CellAt(before, HEADER_ROW_INDEX, c)

\* Four date columns and a DateSet of five dates: one insertion; with the
\* block at column 6, at column 10.
C3_Witness ==
    /\ FirstRun
    /\ ExistingDateCols(calls[1].before) = <<6, 7, 8, 9>>
    /\ Len(sundays) = 5
    /\ calls[1].inserted = <<10>>
    /\ ExistingDateCols(ws) = <<6, 7, 8, 9, 10>>

\* C7: a second update_header_dates with the same DateSet inserts no
\* column, leaves the number of date columns unchanged and leaves the
\* header values equal to the DateSet.
C7_AlignmentIdempotent ==
    SecondRun =>
        /\ calls[2].inserted = <<>>
        /\ Len(ExistingDateCols(ws)) = Len(ExistingDateCols(calls[2].before))
        /\ Len(date_cols) = Len(sundays)
        /\ \A i \in 1..Len(date_cols) :
              HeaderValue(ws, date_cols[i]) = DateValue(sundays[i])
        /\ \A c \in 1..MaxColumnOf(ws) :
              HeaderValue(ws, c) = HeaderValue(calls[2].before, c)

\* The second run after a first run that shrank a block of five to four by
\* blanking.
C7_Witness ==
    /\ SecondRun
    /\ Len(ExistingDateCols(calls[1].before)) = 5
    /\ Contiguous(ExistingDateCols(calls[1].before))
    /\ Len(sundays) = 4
    /\ Len(ExistingDateCols(ws)) = 4

\* The second run after a first run that grew a block of four to five.
C7_WitnessGrew ==
    /\ SecondRun
    /\ Len(ExistingDateCols(calls[1].before)) = 4
    /\ Len(calls[1].inserted) = 1
    /\ Len(ExistingDateCols(ws)) = 5

\* C10 as stated: every header cell that held a non-date label before
\* update_header_dates holds the same label afterwards, at its column
\* shifted right by the number of columns inserted at or before it.
C10_LabelsKept ==
    FirstRun =>
        \A c \in 1..MaxColumnOf(calls[1].before) :
            IsLabelValue(HeaderValue(calls[1].before, c)) =>
                HeaderValue(ws, ShiftedCol(c, calls[1].inserted, 1))
                    = HeaderValue(calls[1].before, c)

\* Column c is reached by the scan of clear_extra_header_columns: it is right
\* of the last target column and no cell between the two is blank.
ReachedByClear(ensured, last_col, c) ==
    /\ c > last_col
    /\ \A j \in (last_col + 1)..c :
          ~IsBlank(CellAt(ensured, HEADER_ROW_INDEX, j))

\* C10, amended: a non-date label that, after the insertions, lies in the
\* unbroken run of non-blank header cells right of the last target column is
\* blanked; every other non-date label holds the same label afterwards, at
\* its column shifted right by the number of columns inserted at or before
\* it.
C10_LabelsKeptUnlessInRun ==
    (FirstRun /\ date_cols # <<>>) =>
        \A c \in 1..MaxColumnOf(calls[1].before) :
            IsLabelValue(HeaderValue(calls[1].before, c)) =>
                LET to == ShiftedCol(c, calls[1].inserted, 1)
                IN IF ReachedByClear(calls[1].ensured,
                                     date_cols[Len(date_cols)], to)
                     THEN HeaderValue(ws, to) = StrValue(<<>>)
                     ELSE HeaderValue(ws, to) = HeaderValue(calls[1].before, c)

\* A run that inserted a column, blanked a label right of the block and kept
\* another label further right, and kept the labels left of the block.
C10_Witness ==
    /\ FirstRun
    /\ calls[1].inserted # <<>>
    /\ \E c1, c2, c3 \in 1..MaxColumnOf(calls[1].before) :
          /\ c1 < c2 /\ c2 < c3
          /\ IsLabelValue(HeaderValue(calls[1].before, c1))
          /\ IsLabelValue(HeaderValue(calls[1].before, c2))
          /\ IsLabelValue(HeaderValue(calls[1].before, c3))
          /\ HeaderValue(ws, c1) = HeaderValue(calls[1].before, c1)
          /\ HeaderValue(ws, ShiftedCol(c2, calls[1].inserted, 1))
                = StrValue(<<>>)
          /\ ShiftedCol(c3, calls[1].inserted, 1) > c3
          /\ HeaderValue(ws, ShiftedCol(c3, calls[1].inserted, 1))
                = HeaderValue(calls[1].before, c3)

---------------------------------------------------------------------------
(* PORTUGUESE_MONTHS and update_month_label                                *)

PORTUGUESE_MONTHS ==
    << <<"J","a","n","e","i","r","o">>,
       <<"F","e","v","e","r","e","i","r","o">>,
       <<"M","a","r","c,","o">>,
       <<"A","b","r","i","l">>,
       <<"M","a","i","o">>,
       <<"J","u","n","h","o">>,
       <<"J","u","l","h","o">>,
       <<"A","g","o","s","t","o">>,
       <<"S","e","t","e","m","b","r","o">>,
       <<"O","u","t","u","b","r","o">>,
       <<"N","o","v","e","m","b","r","o">>,
       <<"D","e","z","e","m","b","r","o">> >>

\* f"Mês: {month_name}"
MonthLabel(month_name) == <<"M","e^","s",":"," ">> \o month_name

IsMonthLabelCell(cell) ==
    IsStr(cell) /\ Contains(Normalize(cell.text), <<"m","e","s">>)

\* update_month_label(ws, month_name): every cell of rows 1..3 whose
\* normalised text contains "mes" takes the new label.
UpdateMonthLabelOf(w, month_name) ==
    Tup([r \in 1..Len(w) |->
           IF r > 3 THEN w[r]
           ELSE Tup([c \in 1..Len(w[r]) |->
                       IF IsMonthLabelCell(w[r][c])
                         THEN WithValue(w[r][c], StrValue(MonthLabel(month_name)))
                         ELSE w[r][c]])])

---------------------------------------------------------------------------
(* parse_birth                                                             *)

NoBirth == <<>>


\* re.findall(r"\d+", text): the maximal runs of digits, in order; `run` is
\* the run being read.
RECURSIVE DigitRuns(_, _)
DigitRuns(t, run) ==
    IF t = <<>> THEN (IF run = <<>> THEN <<>> ELSE <<run>>)
    ELSE IF Head(t) \in DIGIT_SET THEN DigitRuns(Tail(t), Append(run, Head(t)))
    ELSE (IF run = <<>> THEN <<>> ELSE <<run>>) \o DigitRuns(Tail(t), <<>>)

\* int(digits)
RECURSIVE ToInt(_)
ToInt(digits) ==
    IF digits = <<>> THEN 0
    ELSE 10 * ToInt(SubSeq(digits, 1, Len(digits) - 1))
           + (IndexOf(DIGITS, digits[Len(digits)]) - 1)

ParseBirthNums(nums) ==
    IF Len(nums) >= 2
         /\ ToInt(nums[1]) >= 1 /\ ToInt(nums[1]) <= 31
         /\ ToInt(nums[2]) >= 1 /\ ToInt(nums[2]) <= 12
      THEN <<ToInt(nums[1]), ToInt(nums[2])>>
      ELSE NoBirth

ParseBirthText(text) ==
    IF text = <<>> \/ text = <<"-">> \/ text = <<"-","-">> THEN NoBirth
    ELSE ParseBirthNums(DigitRuns(text, <<>>))

\* parse_birth(value): <<day, month>>, or NoBirth for None
ParseBirth(cell) ==
    IF cell.kind = "none" THEN NoBirth
    ELSE IF IsDate(cell) THEN <<cell.date[3], cell.date[2]>>
    ELSE ParseBirthText(Strip(cell.text))

---------------------------------------------------------------------------
(* find_header_columns                                                     *)

HeaderHas(w, c, token) ==
    /\ IsStr(HeaderRow(w)[c])
    /\ Contains(Normalize(HeaderRow(w)[c].text), token)

\* The first header column whose normalised text contains token; 0 for None.
FirstHeaderCol(w, token) ==
    IF \E c \in 1..Len(HeaderRow(w)) : HeaderHas(w, c, token)
      THEN CHOOSE c \in 1..Len(HeaderRow(w)) :
              /\ HeaderHas(w, c, token)
              /\ \A d \in 1..(c - 1) : ~HeaderHas(w, d, token)
      ELSE 0

\* find_header_columns(ws): <<name_col, birth_col>>
FindHeaderColumns(w) ==
    <<FirstHeaderCol(w, <<"n","o","m","e">>),
      FirstHeaderCol(w, <<"n","a","s","c">>)>>

---------------------------------------------------------------------------
(* collect_students                                                        *)

SECTION_TOKENS ==
    { <<"p","r","e","s","e","n","t">>, <<"a","u","s","e","n","t">>,
      <<"t","o","t","a","l">>, <<"v","i","s","i","t">>,
      <<"a","s","s","u","n","t","o">>, <<"a","n","i","v","e","r","s">> }

\* The test of line 152 on the normalised name.
IsSectionName(normalized) ==
    \/ EndsWith(normalized, <<":">>)
    \/ \E token \in SECTION_TOKENS : Contains(normalized, token)

\* A variant that ends the roster at the second empty cell in a row.
StreakEnds_AtTwo(empty_streak) == empty_streak >= 2

\* The test "if empty_streak >= 3" of lines 147 and 159.
StreakEnds(empty_streak) == empty_streak >= 3

\* The while loop of collect_students from row row_idx on.
RECURSIVE CollectFrom(_, _, _, _, _, _)
CollectFrom(w, name_col, birth_col, row_idx, empty_streak, found) ==
    IF row_idx > MaxRowOf(w) THEN found
    ELSE IF IsStr(CellAt(w, row_idx, name_col))
              /\ Strip(CellAt(w, row_idx, name_col).text) # <<>>
      THEN (IF IsSectionName(Normalize(Strip(CellAt(w, row_idx, name_col).text)))
              THEN found
              ELSE CollectFrom(w, name_col, birth_col, row_idx + 1, 0,
                     Append(found,
                            <<Strip(CellAt(w, row_idx, name_col).text),
                              ParseBirth(CellAt(w, row_idx, birth_col))>>)))
      ELSE (IF StreakEnds(empty_streak + 1)
              THEN found
              ELSE CollectFrom(w, name_col, birth_col, row_idx + 1,
                               empty_streak + 1, found))

\* collect_students(ws, name_col, birth_col): a list of <<name, birth>>
CollectStudents(w, name_col, birth_col) ==
    CollectFrom(w, name_col, birth_col, HEADER_ROW_INDEX + 1, 0, <<>>)

---------------------------------------------------------------------------
(* find_label_cell                                                         *)

L_ASSUNTO == <<"A","S","S","U","N","T","O"," ","D","A","S"," ",
               "A","U","L","A","S",":">>
L_VISITAS == <<"V","I","S","I","T","A","S",":">>
L_ANIVERSARIANTES == <<"A","N","I","V","E","R","S","A","R","I","A","N","T",
                       "E","S",":">>

NoCell == <<0, 0>>

LabelAt(w, r, c, label_norm) ==
    IsStr(w[r][c]) /\ Normalize(w[r][c].text) = label_norm

\* The inner loop of find_label_cell: the first column of row r that LabelAt
\* holds of, 0 if there is none.
FindInRow(w, r, label_norm) ==
    IF \E c \in 1..Len(w[r]) : LabelAt(w, r, c, label_norm)
      THEN CHOOSE c \in 1..Len(w[r]) :
              /\ LabelAt(w, r, c, label_norm)
              /\ \A d \in 1..(c - 1) : ~LabelAt(w, r, d, label_norm)
      ELSE 0

\* The outer loop of find_label_cell, from row r on.
RECURSIVE FindFrom(_, _, _)
FindFrom(w, r, label_norm) ==
    IF r > Len(w) THEN NoCell
    ELSE IF FindInRow(w, r, label_norm) # 0
      THEN <<r, FindInRow(w, r, label_norm)>>
    ELSE FindFrom(w, r + 1, label_norm)

\* find_label_cell(ws, label): <<row, column>>, or NoCell for None
FindLabelCell(w, label) == FindFrom(w, 1, Normalize(label))

---------------------------------------------------------------------------
(* update_section_dates and update_birthdays                               *)

\* The test that ends the block beneath a label: a str whose normalised
\* form ends with ":" and is not the label itself.
EndsBlock(cell, label_norm) ==
    /\ IsStr(cell)
    /\ EndsWith(Normalize(cell.text), <<":">>)
    /\ Normalize(cell.text) # label_norm

\* The while loops of lines 253-259 and 280-286: the row the scan stops at.
RECURSIVE ScanDown(_, _, _, _)
ScanDown(w, next_row, label_col, label_norm) ==
    IF next_row > MaxRowOf(w) THEN next_row
    ELSE IF EndsBlock(CellAt(w, next_row, label_col), label_norm) THEN next_row
    ELSE ScanDown(w, next_row + 1, label_col, label_norm)

\* Lines 262-264 and 299-301: the sheet with the missing rows inserted.
Widened(w, label_row, next_row, needed) ==
    IF next_row - label_row - 1 < needed
      THEN InsertRows(w, next_row,
                      needed - (next_row - label_row - 1))
      ELSE w

\* next_row after lines 262-264 and 299-301
WidenedEnd(label_row, next_row, needed) ==
    IF next_row - label_row - 1 < needed
      THEN next_row + (needed - (next_row - label_row - 1))
      ELSE next_row

\* Lines 265-268 and 302-303: values[idx] goes to row label_row + 1 + idx,
\* with the number format fmt when one is given.
RECURSIVE WriteValues(_, _, _, _, _, _)
WriteValues(w, label_row, label_col, values, fmt, idx) ==
    IF idx > Len(values) THEN w
    ELSE WriteValues(
           IF fmt = "" THEN SetValue(w, label_row + idx, label_col, values[idx])
           ELSE SetNumberFormat(
                  SetValue(w, label_row + idx, label_col, values[idx]),
                  label_row + idx, label_col, fmt),
           label_row, label_col, values, fmt, idx + 1)

\* A variant that leaves the last leftover row as it is.
CleanupUpTo_Short(next_row) == next_row - 1

\* The end (exclusive) of the rows that lines 269-270 and 304-305 blank.
CleanupUpTo(next_row) == next_row

RECURSIVE BlankRows(_, _, _, _)
BlankRows(w, cleanup_row, stop_row, label_col) ==
    IF cleanup_row >= stop_row THEN w
    ELSE BlankRows(SetValue(w, cleanup_row, label_col, StrValue(<<>>)),
                   cleanup_row + 1, stop_row, label_col)

\* The block beneath the label at <<label_row, label_col>>, which the scan
\* found to end at next_row, made to hold `values`.
SyncBlock(w, label_row, label_col, next_row, values, fmt) ==
    BlankRows(
      WriteValues(Widened(w, label_row, next_row, Len(values)),
                  label_row, label_col, values, fmt, 1),
      label_row + 1 + Len(values),
      CleanupUpTo(WidenedEnd(label_row, next_row, Len(values))),
      label_col)

SyncAt(w, cell, label_norm, values, fmt) ==
    IF cell = NoCell THEN w
    ELSE SyncBlock(w, cell[1], cell[2],
                   ScanDown(w, cell[1] + 1, cell[2], label_norm), values, fmt)

DateValues(dates) == Tup([i \in 1..Len(dates) |-> DateValue(dates[i])])

\* update_section_dates(ws, label, sundays)
UpdateSectionDatesOf(w, label, dates) ==
    SyncAt(w, FindLabelCell(w, label), Normalize(label), DateValues(dates),
           "dd/mm")

\* A birthday entry (day, sort_key, name) of line 295.
Entry(day, sort_key, name) == [day |-> day, sort_key |-> sort_key, name |-> name]

\* Lines 289-295: the entries of the students born in target_month.
RECURSIVE BirthdayEntries(_, _, _)
BirthdayEntries(studs, month, i) ==
    IF i > Len(studs) THEN <<>>
    ELSE (IF studs[i][2] # NoBirth /\ studs[i][2][2] = month
            THEN <<Entry(studs[i][2][1], Normalize(studs[i][1]), studs[i][1])>>
            ELSE <<>>)
           \o BirthdayEntries(studs, month, i + 1)

\* A variant of the sort key that compares the day only.
KeyLess_DayOnly(a, b) == a.day < b.day

\* key(a) < key(b) for the key (item[0], item[1]) of line 297.
KeyLess(a, b) ==
    \/ a.day < b.day
    \/ (a.day = b.day /\ StrLess(a.sort_key, b.sort_key))

\* list.sort(key=...) is stable: an entry goes before the first sorted entry
\* whose key is greater.
RECURSIVE InsertSorted(_, _)
InsertSorted(sorted, e) ==
    IF sorted = <<>> THEN <<e>>
    ELSE IF KeyLess(e, Head(sorted)) THEN <<e>> \o sorted
    ELSE <<Head(sorted)>> \o InsertSorted(Tail(sorted), e)

RECURSIVE SortEntries(_, _, _)
SortEntries(entries, i, sorted) ==
    IF i > Len(entries) THEN sorted
    ELSE SortEntries(entries, i + 1, InsertSorted(sorted, entries[i]))

\* f"{name} - {day:02d}/{target_month:02d}"
BirthdayText(e, month) ==
    e.name \o <<" ", "-", " ">> \o TwoDigits(e.day) \o <<"/">> \o TwoDigits(month)

\* Line 298: the display strings of the sorted entries, as cell values.
BirthdayTexts(sorted, month) ==
    Tup([i \in 1..Len(sorted) |-> StrValue(BirthdayText(sorted[i], month))])

\* Lines 288-298: the list `birthdays`, as cell values.
Birthdays(studs, month) ==
    BirthdayTexts(SortEntries(BirthdayEntries(studs, month, 1), 1, <<>>), month)

\* update_birthdays(ws, students, target_month)
UpdateBirthdaysOf(w, studs, month) ==
    SyncAt(w, FindLabelCell(w, L_ANIVERSARIANTES),
           <<"a","n","i","v","e","r","s","a","r","i","a","n","t","e","s",":">>,
           Birthdays(studs, month), "")

---------------------------------------------------------------------------
(* process_sheet, line 317: update_month_label(ws, month_name)             *)

UpdateMonthLabel ==
    /\ pc = "month_label"
    /\ ws' = UpdateMonthLabelOf(ws, PORTUGUESE_MONTHS[target_month])
    /\ pc' = "header"
    /\ UNCHANGED <<column_dimensions, target_year, target_month, sundays,
                   students, date_cols, calls>>

---------------------------------------------------------------------------
(* process_sheet, lines 321-324: find_header_columns, the early return and *)
(* collect_students                                                        *)

RosterReturns(cols) ==
    IF cols[1] = 0 \/ cols[2] = 0
      THEN /\ pc' = "done"
           /\ students' = students
      ELSE /\ pc' = "assunto"
           /\ students' = CollectStudents(ws, cols[1], cols[2])

ExtractRoster ==
    /\ pc = "find_columns"
    /\ RosterReturns(FindHeaderColumns(ws))
    /\ UNCHANGED <<ws, column_dimensions, target_year, target_month, sundays,
                   date_cols, calls>>

---------------------------------------------------------------------------
(* process_sheet, lines 325-327: the three section updates                 *)

SectionCall(label, next_pc) ==
    /\ ws' = UpdateSectionDatesOf(ws, label, sundays)
    /\ calls' = Append(calls, CallRecord("update_section_dates", ws, <<>>,
                                         <<>>, label, DateValues(sundays)))
    /\ pc' = next_pc
    /\ UNCHANGED <<column_dimensions, target_year, target_month, sundays,
                   students, date_cols>>

UpdateSectionAssunto ==
    /\ pc = "assunto"
    /\ SectionCall(L_ASSUNTO, "visitas")

UpdateSectionVisitas ==
    /\ pc = "visitas"
    /\ SectionCall(L_VISITAS, "birthdays")

UpdateBirthdays ==
    /\ pc = "birthdays"
    /\ ws' = UpdateBirthdaysOf(ws, students, target_month)
    /\ calls' = Append(calls, CallRecord("update_birthdays", ws, <<>>, <<>>,
                                         L_ANIVERSARIANTES,
                                         Birthdays(students, target_month)))
    /\ pc' = "done"
    /\ UNCHANGED <<column_dimensions, target_year, target_month, sundays,
                   students, date_cols>>

---------------------------------------------------------------------------
(* More worksheets the specifications start from.                          *)

T_STALE == <<"R","u","i"," ","-"," ","0","2","/","0","1">>
T_ANA == <<"A","n","a">>
T_ANA_CAPS == <<"A","N","A">>
T_BIA == <<"B","i","a">>
T_CAIO == <<"C","a","i","o">>
T_DAVI == <<"D","a","v","i">>
T_EVA == <<"E","v","a">>

\* Section labels as a base workbook writes them.
S_ASSUNTO == <<"A","s","s","u","n","t","o"," ","d","a","s"," ",
               "A","u","l","a","s",":">>
S_VISITAS == <<"V","I","S","I","T","A","S",":">>
S_ANIVERSARIANTES == <<"A","n","i","v","e","r","s","a","r","i","a","n","t",
                       "e","s",":">>

PadRow(row, width) ==
    row \o Tup([c \in 1..(width - Len(row)) |-> NoneCell])

Plain(v) == Cell(v, DefaultStyle)

\* Rows 1..5 of an attendance sheet: the month label in row 2, the header in
\* row 5.
TopRows(header) ==
    << EmptyRow(Len(header)),
       PadRow(<<Plain(StrValue(<<"M","e^","s",":"," ","J","a","n","e","i","r","o">>))>>,
              Len(header)),
       EmptyRow(Len(header)),
       EmptyRow(Len(header)),
       header >>

\* The header of the sheets whose sections and rosters are studied: a name
\* column, a birth column and one date column.
ShortHeader == HeaderOf(<<"label", "label">>, <<"date">>)

\* The section area of a sheet, rows 1..rows of two columns: cell number p
\* (row by row) holds the label placed there, the others hold `fill`.
SectionArea(rows, pa, pv, pn, fill) ==
    Tup([r \in 1..rows |->
       PadRow(
         Tup([c \in 1..2 |->
            LET p == 2 * (r - 1) + c
            IN IF p = pa THEN Plain(StrValue(S_ASSUNTO))
               ELSE IF p = pv THEN Plain(StrValue(S_VISITAS))
               ELSE IF p = pn THEN Plain(StrValue(S_ANIVERSARIANTES))
               ELSE IF fill = "text" THEN Plain(StrValue(T_STALE))
               ELSE NoneCell]),
         Len(ShortHeader))])

\* The labels are placed in the first MaxLabelRow rows of the section area,
\* so that a block of up to three rows can lie beneath each of them.
MaxLabelRow == MaxSectionRows - 3

SAMPLE_STUDENTS ==
    << <<T_ANA, <<15, 3>>>>, <<T_BIA, <<2, 3>>>>, <<T_CAIO, <<15, 3>>>>,
       <<T_DAVI, <<9, 3>>>>, <<T_EVA, <<30, 3>>>> >>

Prefixes(s, longest) ==
    {SubSeq(s, 1, n) : n \in 0..(IF longest < Len(s) THEN longest ELSE Len(s))}

---------------------------------------------------------------------------
(* Specification of the three section updates of process_sheet, from the   *)
(* point where the header is aligned and the roster extracted.             *)

InitSync ==
    /\ target_year = 2024
    /\ target_month = 3
    /\ sundays \in Prefixes(MonthSundays(2024, 3), MaxDates)
    \* a roster without birthdays, or one with MaxStudents of them
    /\ students \in {<<>>, SubSeq(SAMPLE_STUDENTS, 1, MaxStudents)}
    /\ \E pa, pv, pn \in 0..(2 * MaxLabelRow), fill \in {"none", "text"} :
          \* no two labels in one cell (place 0: the label is absent)
          /\ (pa = 0 \/ pa # pv) /\ (pa = 0 \/ pa # pn) /\ (pv = 0 \/ pv # pn)
          /\ ws = TopRows(ShortHeader)
                    \o SectionArea(MaxSectionRows, pa, pv, pn, fill)
    /\ column_dimensions = WidthsOf(MaxColumnOf(ws))
    /\ pc = "assunto"
    /\ date_cols = <<3>>
    /\ calls = <<>>

NextSync == UpdateSectionAssunto \/ UpdateSectionVisitas \/ UpdateBirthdays

SpecSync == InitSync /\ [][NextSync]_vars

---------------------------------------------------------------------------
(* Properties of the section updates (under SpecSync).                     *)

\* The cells whose normalised text is the normalised label.
LabelPlaces(w, label) ==
    {p \in (1..MaxRowOf(w)) \X (1..MaxColumnOf(w)) :
        /\ IsStr(w[p[1]][p[2]])
        /\ Normalize(w[p[1]][p[2]].text) = Normalize(label)}

\* The first of them, row by row and left to right.
LabelPlace(w, label) ==
    CHOOSE p \in LabelPlaces(w, label) :
        \A q \in LabelPlaces(w, label) :
            p[1] < q[1] \/ (p[1] = q[1] /\ p[2] <= q[2])

\* The cell is the label of another section.
IsNextLabel(cell, label) ==
    /\ IsStr(cell)
    /\ cell.text # <<>>
    /\ Normalize(cell.text)[Len(Normalize(cell.text))] = ":"
    /\ Normalize(cell.text) # Normalize(label)

\* The end boundary of the block beneath the label at p: the row of the next
\* label in the column, or the row after the last.
EndBoundary(w, p, label) ==
    LET ends == {r \in (p[1] + 1)..MaxRowOf(w) :
                    IsNextLabel(CellAt(w, r, p[2]), label)}
    IN IF ends = {} THEN MaxRowOf(w) + 1
       ELSE CHOOSE r \in ends : \A q \in ends : r <= q

\* The rows beneath the label at p hold `values`, in order.
HoldsValues(w, p, values) ==
    \A i \in 1..Len(values) : ValueOf(CellAt(w, p[1] + i, p[2])) = values[i]

IsSync(call) == call.op \in {"update_section_dates", "update_birthdays"}

\* C2: after a sync of a label present on the sheet with a list of n values,
\* rows labelRow+1 .. labelRow+n of the label's column hold the values in
\* order, every cell from row labelRow+n+1 up to the end boundary is blank,
\* and the cell at row labelRow+n+1 is blank or the next label.
C2_BlockHoldsValues ==
    (calls # <<>> /\ IsSync(calls[Len(calls)])
        /\ LabelPlaces(calls[Len(calls)].before, calls[Len(calls)].label) # {})
    =>
        LET call == calls[Len(calls)]
            p == LabelPlace(call.before, call.label)
            n == Len(call.values)
        IN /\ LabelPlaces(ws, call.label) # {}
           /\ LabelPlace(ws, call.label) = p
           /\ HoldsValues(ws, p, call.values)
           /\ \A r \in (p[1] + n + 1)..(EndBoundary(ws, p, call.label) - 1) :
                 IsBlank(CellAt(ws, r, p[2]))
           /\ \/ IsBlank(CellAt(ws, p[1] + n + 1, p[2]))
              \/ IsNextLabel(CellAt(ws, p[1] + n + 1, p[2]), call.label)

\* A birthday list of five rows shrunk to three entries: the three entries
\* are written and the two trailing rows blanked.
C2_Witness ==
    /\ calls # <<>>
    /\ calls[Len(calls)].op = "update_birthdays"
    /\ Len(calls[Len(calls)].values) = 3
    /\ LabelPlaces(calls[Len(calls)].before, L_ANIVERSARIANTES) # {}
    /\ LET call == calls[Len(calls)]
           p == LabelPlace(call.before, L_ANIVERSARIANTES)
       IN /\ EndBoundary(call.before, p, L_ANIVERSARIANTES) = p[1] + 6
          /\ \A i \in 1..5 :
                ValueOf(CellAt(call.before, p[1] + i, p[2])) = StrValue(T_STALE)
          /\ HoldsValues(ws, p, call.values)
          /\ ValueOf(CellAt(ws, p[1] + 4, p[2])) = StrValue(<<>>)
          /\ ValueOf(CellAt(ws, p[1] + 5, p[2])) = StrValue(<<>>)

\* A sync that had to insert rows before the next label of its column.
C2_WitnessGrown ==
    /\ calls # <<>>
    /\ IsSync(calls[Len(calls)])
    /\ LabelPlaces(calls[Len(calls)].before, calls[Len(calls)].label) # {}
    /\ MaxRowOf(ws) > MaxRowOf(calls[Len(calls)].before)
    /\ Len(calls[Len(calls)].values) = 2

\* C9: after the three syncs of process_sheet, every section present on the
\* sheet has its values in the consecutive rows directly beneath its label,
\* for any placement of the three labels.
C9_SectionsIntact ==
    (pc = "done" /\ Len(calls) = 3) =>
        \A i \in 1..3 :
            (IsSync(calls[i]) /\ LabelPlaces(ws, calls[i].label) # {}) =>
                HoldsValues(ws, LabelPlace(ws, calls[i].label), calls[i].values)

---------------------------------------------------------------------------
(* Specification of the roster extraction: find_header_columns and         *)
(* collect_students on a sheet whose name column holds any of the kinds of *)
(* cell below, in up to MaxRoster rows under the header.                   *)



\* The name cell of a roster row, by its kind.
NameCell(kind) ==
    IF kind = "blanks" THEN Plain(StrValue(<<" ", " ">>))
    ELSE IF kind = "name" THEN Plain(StrValue(<<" ">> \o T_ANA \o <<" ">>))
    ELSE IF kind = "date" THEN Plain(DateValue(<<2024, 1, 7>>))
    ELSE IF kind = "total" THEN Plain(StrValue(T_TOTAL))
    ELSE IF kind = "colon" THEN Plain(StrValue(<<"O","b","s",":"," ">>))
    ELSE NoneCell

\* The birth cell of the i-th roster row: a text, a date or a dash.
BirthCell(i) ==
    IF i % 3 = 1
      THEN Plain(StrValue(<<"0", DIGITS[i + 1], "/", "0", "3", "/",
                            "1", "9", "9", "0">>))
    ELSE IF i % 3 = 2 THEN Plain(DateValue(<<1990, 3, i>>))
    ELSE Plain(StrValue(<<"-", "-">>))

RosterRows(kinds, width) ==
    Tup([i \in 1..Len(kinds) |->
           PadRow(<<NameCell(kinds[i]), BirthCell(i)>>, width)])

InitRoster ==
    /\ target_year = 2024
    /\ target_month = 3
    /\ sundays = MonthSundays(2024, 3)
    /\ \E kinds \in SeqsOf({"none", "blanks", "name", "date", "total", "colon"},
                         0, MaxRoster) :
          ws = TopRows(ShortHeader) \o RosterRows(kinds, Len(ShortHeader))
    /\ column_dimensions = WidthsOf(MaxColumnOf(ws))
    /\ pc = "find_columns"
    /\ students = <<>>
    /\ date_cols = <<3>>
    /\ calls = <<>>

NextRoster == ExtractRoster

SpecRoster == InitRoster /\ [][NextRoster]_vars

---------------------------------------------------------------------------
(* Properties of the roster extraction (under SpecRoster).                 *)

\* The name cell of row r holds text that is not empty once trimmed.
HasName(w, r) ==
    /\ IsStr(CellAt(w, r, 1))
    /\ Strip(CellAt(w, r, 1).text) # <<>>

\* The name of row r is that of a section: its normalised form ends with
\* ":" or contains a section keyword.
HasSectionName(w, r) ==
    /\ HasName(w, r)
    /\ LET norm == Normalize(Strip(CellAt(w, r, 1).text))
       IN \/ norm[Len(norm)] = ":"
          \/ \E k \in { <<"p","r","e","s","e","n","t">>,
                        <<"a","u","s","e","n","t">>, <<"t","o","t","a","l">>,
                        <<"v","i","s","i","t">>,
                        <<"a","s","s","u","n","t","o">>,
                        <<"a","n","i","v","e","r","s">> } :
                \E i \in 1..(Len(norm) - Len(k) + 1) :
                    SubSeq(norm, i, i + Len(k) - 1) = k

\* Row r is the third of three consecutive rows under the header without a
\* name.
IsThirdEmpty(w, r) ==
    /\ r - 2 > HEADER_ROW_INDEX
    /\ \A q \in (r - 2)..r : ~HasName(w, q)

\* The stop point: the first row that ends the scan, or the row after the
\* last.
StopPoint(w) ==
    LET stops == {r \in (HEADER_ROW_INDEX + 1)..MaxRowOf(w) :
                     HasSectionName(w, r) \/ IsThirdEmpty(w, r)}
    IN IF stops = {} THEN MaxRowOf(w) + 1
       ELSE CHOOSE r \in stops : \A q \in stops : r <= q

\* The rows with a name strictly above the stop point.
RosterRowsOf(w) ==
    {r \in (HEADER_ROW_INDEX + 1)..(StopPoint(w) - 1) : HasName(w, r)}

\* C5: collect_students returns exactly the rows with non-empty trimmed text
\* strictly above the stop point, in row order, each with its trimmed name
\* and its parsed birth; no row at or below the stop point is returned, and
\* a gap of one or two empty rows does not end the scan.
C5_RosterExact ==
    (pc = "assunto" /\ calls = <<>>) =>
        /\ Len(students) = Cardinality(RosterRowsOf(ws))
        /\ \A r \in RosterRowsOf(ws) :
              LET i == Cardinality({q \in RosterRowsOf(ws) : q <= r})
              IN /\ students[i][1] = Strip(CellAt(ws, r, 1).text)
                 /\ students[i][2] = ParseBirth(CellAt(ws, r, 2))

\* A roster with a gap of two empty rows (one of them not text) that goes on
\* to a second student and then stops at a section row.
C5_Witness ==
    /\ pc = "assunto" /\ calls = <<>>
    /\ MaxRowOf(ws) = HEADER_ROW_INDEX + 5
    /\ HasName(ws, 6) /\ ~HasName(ws, 7) /\ ~HasName(ws, 8) /\ HasName(ws, 9)
    /\ ~IsStr(CellAt(ws, 7, 1))
    /\ StopPoint(ws) = 10
    /\ students = << <<T_ANA, <<1, 3>>>>, <<T_ANA, <<4, 3>>>> >>

\* A roster ended by three empty rows, with a named row beneath that is not
\* returned.
C5_WitnessThreeEmpty ==
    /\ pc = "assunto" /\ calls = <<>>
    /\ HasName(ws, 6) /\ StopPoint(ws) = 9 /\ HasName(ws, 10)
    /\ ~HasSectionName(ws, 10)
    /\ Len(students) = 1

---------------------------------------------------------------------------
(* Specification of update_birthdays over the rosters of up to MaxStudents *)
(* students drawn from BIRTHDAY_POOL, in any order.                        *)

\* Two names of one normalised form on one day, a third student of that
\* day, one of an earlier day, one of another month and one without birth.
BIRTHDAY_POOL ==
    { <<T_ANA, <<15, 3>>>>, <<T_ANA_CAPS, <<15, 3>>>>, <<T_BIA, <<15, 3>>>>,
      <<T_CAIO, <<2, 3>>>>, <<T_DAVI, <<9, 4>>>>, <<T_EVA, NoBirth>> }

InitBirthdays ==
    /\ target_year = 2024
    /\ target_month = 3
    /\ sundays = MonthSundays(2024, 3)
    /\ students \in UNION {[1..n -> BIRTHDAY_POOL] : n \in 0..MaxStudents}
    /\ ws = TopRows(ShortHeader) \o SectionArea(2, 0, 0, 1, "text")
    /\ column_dimensions = WidthsOf(MaxColumnOf(ws))
    /\ pc = "birthdays"
    /\ date_cols = <<3>>
    /\ calls = <<>>

NextBirthdays == UpdateBirthdays

SpecBirthdays == InitBirthdays /\ [][NextBirthdays]_vars

---------------------------------------------------------------------------
(* Properties of the birthday list (under SpecBirthdays).                  *)

\* The rosters that hold the students of s in another row order.
Reordered(s) ==
    {Tup([i \in 1..Len(s) |-> s[f[i]]]) :
        f \in {g \in [1..Len(s) -> 1..Len(s)] :
                  \A i, j \in 1..Len(s) : g[i] = g[j] => i = j}}

\* The rows of the roster s with a birthday in the month.
BornIn(s, month) ==
    {i \in 1..Len(s) : s[i][2] # NoBirth /\ s[i][2][2] = month}

\* Student j of s is listed before student i: an earlier day, or the same
\* day and a smaller normalised name, or the same of both and an earlier
\* row.
ListedBefore(s, j, i) ==
    \/ s[j][2][1] < s[i][2][1]
    \/ /\ s[j][2][1] = s[i][2][1]
       /\ StrLess(Normalize(s[j][1]), Normalize(s[i][1]))
    \/ /\ s[j][2][1] = s[i][2][1]
       /\ Normalize(s[j][1]) = Normalize(s[i][1])
       /\ j < i

\* The display string of student i of s.
DisplayOf(s, i, month) ==
    StrValue(s[i][1] \o <<" ", "-", " ">>
               \o <<DIGITS[(s[i][2][1] \div 10) + 1],
                    DIGITS[(s[i][2][1] % 10) + 1]>>
               \o <<"/">>
               \o <<DIGITS[(month \div 10) + 1], DIGITS[(month % 10) + 1]>>)

\* Two students of the month with the same day and distinct names of the
\* same normalised form.
SameKeyNames(s, month) ==
    \E i, j \in BornIn(s, month) :
        /\ s[i][1] # s[j][1]
        /\ s[i][2][1] = s[j][2][1]
        /\ Normalize(s[i][1]) = Normalize(s[j][1])

BirthdaysWritten ==
    /\ pc = "done"
    /\ calls # <<>>
    /\ calls[Len(calls)].op = "update_birthdays"
    /\ LabelPlaces(ws, L_ANIVERSARIANTES) # {}

\* C6 (as stated): the birthday list is the same for every row order of the
\* roster, also when two distinct names have the same normalised form.
C6_SameForAnyOrder ==
    BirthdaysWritten =>
        \A other \in Reordered(students) :
            HoldsValues(ws, LabelPlace(ws, L_ANIVERSARIANTES),
                        Birthdays(other, target_month))

\* C6 (amended): the list holds the display strings of the students born in
\* the month, ordered by day, then by normalised name, then by roster row;
\* it is the same for every row order of the roster unless two students of
\* the month share the day and have distinct names of one normalised form.
C6_OrderedByDayNameRow ==
    BirthdaysWritten =>
        /\ Len(calls[Len(calls)].values)
             = Cardinality(BornIn(students, target_month))
        /\ HoldsValues(ws, LabelPlace(ws, L_ANIVERSARIANTES),
                       calls[Len(calls)].values)
        /\ \A i \in BornIn(students, target_month) :
              ValueOf(CellAt(ws,
                  LabelPlace(ws, L_ANIVERSARIANTES)[1] + 1
                    + Cardinality({j \in BornIn(students, target_month) :
                                      ListedBefore(students, j, i)}),
                  LabelPlace(ws, L_ANIVERSARIANTES)[2]))
                = DisplayOf(students, i, target_month)
        /\ ~SameKeyNames(students, target_month) =>
              \A other \in Reordered(students) :
                  HoldsValues(ws, LabelPlace(ws, L_ANIVERSARIANTES),
                              Birthdays(other, target_month))

\* A roster of three students of one day, listed against their row order by
\* name, the two names of one normalised form kept in row order.
C6_Witness ==
    /\ BirthdaysWritten
    /\ students = << <<T_BIA, <<15, 3>>>>, <<T_ANA_CAPS, <<15, 3>>>>,
                     <<T_ANA, <<15, 3>>>> >>
    /\ HoldsValues(ws, LabelPlace(ws, L_ANIVERSARIANTES),
          << DisplayOf(students, 2, 3), DisplayOf(students, 3, 3),
             DisplayOf(students, 1, 3) >>)

---------------------------------------------------------------------------
(* Specification of generate_planilha on one sheet: month_sundays, then    *)
(* process_sheet from its first line to its last.                          *)



\* The roster of a sheet: one or two students.
SheetRoster(n, width) ==
    SubSeq(<< PadRow(<<Plain(StrValue(T_ANA \o <<" ","S","o","u","z","a">>)),
                       Plain(StrValue(<<"1","5","/","0","3","/",
                                        "1","9","9","0">>))>>, width),
              PadRow(<<Plain(StrValue(T_BIA)),
                       Plain(StrValue(<<"-", "-">>))>>, width) >>, 1, n)

\* A section in column 1: its label and the rows of the month before.
SheetSection(label, stale, rows, width) ==
    <<PadRow(<<Plain(StrValue(label))>>, width)>>
      \o Tup([i \in 1..rows |-> PadRow(<<Plain(stale)>>, width)])

\* The sections of `present`, stacked in column 1 beneath the roster.
SheetSections(present, width) ==
    (IF "assunto" \in present
       THEN SheetSection(S_ASSUNTO, DateValue(OldDate(3)), 4, width)
       ELSE <<>>)
    \o (IF "visitas" \in present
          THEN SheetSection(S_VISITAS, DateValue(OldDate(3)), 4, width)
          ELSE <<>>)
    \o (IF "aniversariantes" \in present
          THEN SheetSection(S_ANIVERSARIANTES, StrValue(T_STALE), 2, width)
          ELSE <<>>)

\* The headers of the sheets: with or without the name column, the birth
\* column and the date block.
SheetHeaders ==
    { HeaderOf(left, block) :
        left \in { <<"label", "label">>, <<"none", "label">>,
                   <<"label", "none">> },
        block \in { <<"date", "date", "date", "date">>, <<"label">> } }

InitSheet ==
    /\ target_year = 2024
    /\ target_month \in 1..12
    /\ \E header \in SheetHeaders, n \in 1..2,
          present \in SUBSET {"assunto", "visitas", "aniversariantes"} :
          ws = TopRows(header) \o SheetRoster(n, Len(header))
                 \o SheetSections(present, Len(header))
    /\ column_dimensions = WidthsOf(MaxColumnOf(ws))
    /\ pc = "start"
    /\ sundays = <<>>
    /\ students = <<>>
    /\ date_cols = <<>>
    /\ calls = <<>>

NextSheet ==
    \/ ComputeSundays
    \/ UpdateMonthLabel
    \/ UpdateHeaderDates
    \/ ExtractRoster
    \/ UpdateSectionAssunto
    \/ UpdateSectionVisitas
    \/ UpdateBirthdays

SpecSheet == InitSheet /\ [][NextSheet]_vars

---------------------------------------------------------------------------
(* Properties of process_sheet (under SpecSheet).                          *)

\* The header row has a text cell whose normalised form contains the token.
HeaderNames(w, token) ==
    \E c \in 1..MaxColumnOf(w) :
        /\ IsStr(CellAt(w, HEADER_ROW_INDEX, c))
        /\ LET norm == Normalize(CellAt(w, HEADER_ROW_INDEX, c).text)
           IN \E i \in 1..(Len(norm) - Len(token) + 1) :
                  SubSeq(norm, i, i + Len(token) - 1) = token

LacksRosterColumn(w) ==
    \/ ~HeaderNames(w, <<"n","o","m","e">>)
    \/ ~HeaderNames(w, <<"n","a","s","c">>)

\* C4: on a sheet that has a date-column block but no name column or no
\* birth column, process_sheet skips the birthday logic only: after the
\* alignment each of the two fixed sections on the sheet is synchronised
\* with the DateSet.
C4_SectionsSyncedWithoutRoster ==
    \A label \in {L_ASSUNTO, L_VISITAS} :
        (/\ pc = "done"
         /\ date_cols # <<>>
         /\ LacksRosterColumn(ws)
         /\ LabelPlaces(ws, label) # {})
        =>
            /\ \E i \in 2..Len(calls) :
                  /\ calls[1].op = "update_header_dates"
                  /\ calls[i].op = "update_section_dates"
                  /\ calls[i].label = label
            /\ HoldsValues(ws, LabelPlace(ws, label), DateValues(sundays))

\* On a sheet with the date block and both roster columns, the sections
\* stacked in one column are synchronised and the birthdays written.
SheetSyncedWithRoster ==
    (pc = "done" /\ date_cols # <<>> /\ ~LacksRosterColumn(ws)) =>
        /\ Len(calls) = 4
        /\ \A label \in {L_ASSUNTO, L_VISITAS} :
              LabelPlaces(ws, label) # {} =>
                  HoldsValues(ws, LabelPlace(ws, label), DateValues(sundays))
        /\ LabelPlaces(ws, L_ANIVERSARIANTES) # {} =>
              HoldsValues(ws, LabelPlace(ws, L_ANIVERSARIANTES),
                          Birthdays(students, target_month))

===========================================================================
